---- MODULE Spec2Model ----
(***************************************************************************)
(* banque.c: one bank account, a fixed table of operations, and four ways  *)
(* of running the ATM routine over the table (serial, fork, pthread, pth). *)
(* The model follows the C source statement by statement at the            *)
(* granularity of the accesses to the volatile balance.                    *)
(***************************************************************************)
EXTENDS Integers, Sequences, FiniteSets, TLC

(***************************************************************************)
(* Bounds of the model.  The program takes any long for --amount and       *)
(* --repeat; the model draws them from 0..MaxStart and 0..MaxRepeat.       *)
(***************************************************************************)
MaxStart == 1
MaxRepeat == 2

\* The four pthreads interleave at every load and store of the balance, so
\* the pthread strategy gets its own, smaller bound on --repeat.
MaxRepeatPthread == 1

\* The longest command line of the model, in options.
MaxArgs == 2

\* #define DEFAULT_REPEAT / DEFAULT_AMOUNT
DEFAULT_REPEAT == 10000000
DEFAULT_AMOUNT == 100000000

NULL == "NULL"

\* static struct operation ops[]: four operations on global_account and the
\* NULL-named sentinel that ends the table.
ops ==
    << [account |-> "global_account", amount |-> 6,  name |-> "Montreal"],
       [account |-> "global_account", amount |-> -4, name |-> "Paris"],
       [account |-> "global_account", amount |-> 7,  name |-> "Johannesburg"],
       [account |-> "global_account", amount |-> -3, name |-> "Bangalore"],
       [account |-> NULL,             amount |-> 0,  name |-> NULL] >>

\* nr_ops: walks the table from entry k until the entry whose name is NULL.
RECURSIVE nr_ops_from(_)
nr_ops_from(k) == IF ops[k].name = NULL THEN 0 ELSE 1 + nr_ops_from(k + 1)

nr_ops_sentinel == Len(ops)

nr_ops == nr_ops_from(1)

\* One execution unit per operation; unit u runs atm(&ops[u]).
Units == 1 .. nr_ops

\* Address spaces: 0 is the original process, u the child forked for ops[u].
Procs == 0 .. nr_ops

Libs == {"serial", "fork", "pthread", "pth"}

\* Nothing printed yet: an "ATM ..." line, a Start/End/Expected report.
NoLine == [unit |-> 0, balance |-> 0]
NoReport == [printed |-> FALSE, start |-> 0, end |-> 0, expected |-> 0]

VARIABLES
    opts,      \* struct opts vars: amount, repeat, lib (after parse_opts)
    mem,       \* mem[p]: global_account.balance in the address space of p
    expected,  \* main's local `expected`
    mpc,       \* position of the original process in main / spawn_*
    si,        \* the loop variable i of the running spawn_* function
    wpc,       \* wpc[u]: position of the unit running atm(&ops[u])
    wi,        \* wi[u]: atm's loop counter i
    reg,       \* reg[u]: the balance value loaded by `balance += amount`
    line,      \* the last "ATM ..." line printed: the unit and the balance
    report,    \* report[p]: the Start/End/Expected report printed by p
    nreports,  \* number of three-line reports printed in the run
    cur,       \* pth: the thread holding the processor (0 is main)
    failed,    \* units whose fork / pthread_create / pth_spawn failed
    lostSum,   \* history: sum of the other units' updates overwritten so far
    run,       \* number of the current run of the program (1 or 2)
    firstRun,  \* End balance and lostSum of the first run, once it is over
    argv,      \* the options of the command line, as getopt_long returns them
    optind,    \* index of the next option parse_opts looks at
    calls      \* history: calls[k] counts the calls atm(&ops[k])

vars == << opts, mem, expected, mpc, si, wpc, wi, reg, line, report, nreports,
           cur, failed, lostSum, run, firstRun, argv, optind, calls >>

\* The address space unit u works in: a forked child has its own copy.
proc_shared(u) == 0

proc(u) == IF opts.lib = "fork" THEN u ELSE 0

\* main: expected = balance = vars.amount; for (i..) expected += amount*repeat
RECURSIVE ExpectedLoop(_, _, _)
ExpectedLoop(i, acc, rep) ==
    IF i > nr_ops THEN acc
    ELSE ExpectedLoop(i + 1, acc + ops[i].amount * rep, rep)

ComputeExpected_nostart(start, rep) == ExpectedLoop(1, 0, rep)

ComputeExpected(start, rep) == ExpectedLoop(1, start, rep)

\* atm: `i < vars.repeat` compares an unsigned long with a long, so repeat is
\* converted to unsigned long: a negative repeat becomes 2^64 + repeat, which
\* no counter value of the model reaches.
LoopCond_offbyone(i, rep) == IF rep < 0 THEN TRUE ELSE i <= rep

LoopCond(i, rep) == IF rep < 0 THEN TRUE ELSE i < rep

\* Who may take a step.  Under pth a thread runs until it blocks or ends;
\* processes and pthreads are scheduled by the kernel at any instruction.
Runnable_preemptive(u) == mpc # "crashed"

Runnable(u) ==
    /\ mpc # "crashed"
    /\ opts.lib = "pth" => cur = u

InitProg ==
    /\ mem = [p \in Procs |-> 0]
    /\ expected = 0
    /\ mpc = "expected"
    /\ si = 0
    /\ wpc = [u \in Units |-> "idle"]
    /\ wi = [u \in Units |-> 0]
    /\ reg = [u \in Units |-> 0]
    /\ line = NoLine
    /\ report = [p \in Procs |-> NoReport]
    /\ nreports = 0
    /\ cur = 0
    /\ failed = {}
    /\ lostSum = 0
    /\ calls = [k \in 1 .. Len(ops) |-> 0]

\* The configurations parse_opts can leave in vars, within the bounds.
Config(libs, maxRepeat) ==
    [amount : 0 .. MaxStart, repeat : 0 .. maxRepeat, lib : libs]

InitWith(configs) ==
    /\ opts \in configs
    /\ InitProg
    /\ run = 1
    /\ firstRun = [end |-> 0, lostSum |-> 0]
    /\ argv = << >>
    /\ optind = 1

Init ==
    InitWith(Config(Libs \ {"pthread"}, MaxRepeat)
                \cup Config({"pthread"}, MaxRepeatPthread))

----------------------------------------------------------------------------
(* parse_opts and usage *)

DigitChars == << "0", "1", "2", "3", "4", "5", "6", "7", "8", "9" >>

IsDigit(c) == \E d \in 1 .. 10 : DigitChars[d] = c

DigitVal(c) == (CHOOSE d \in 1 .. 10 : DigitChars[d] = c) - 1

\* atol: the digits at the front of s, as far as they go.
RECURSIVE AccDigits(_, _)
AccDigits(s, acc) ==
    IF s = << >> \/ ~ IsDigit(Head(s)) THEN acc
    ELSE AccDigits(Tail(s), acc * 10 + DigitVal(Head(s)))

RECURSIVE SkipSpace(_)
SkipSpace(s) ==
    IF s # << >> /\ Head(s) = " " THEN SkipSpace(Tail(s)) ELSE s

\* atol(optarg): white space, an optional sign, then digits up to the first
\* character that is no digit; 0 when there is no digit at all.
atol(s) ==
    LET t == SkipSpace(s)
    IN  IF t # << >> /\ Head(t) = "-" THEN 0 - AccDigits(Tail(t), 0)
        ELSE IF t # << >> /\ Head(t) = "+" THEN AccDigits(Tail(t), 0)
        ELSE AccDigits(t, 0)

\* The strcmp chain of case 'l': the spawn function chosen, or usage().
LibOf_default(arg) == IF arg \in Libs THEN arg ELSE "serial"

LibOf(arg) ==
    IF arg = "serial" THEN "serial"
    ELSE IF arg = "fork" THEN "fork"
    ELSE IF arg = "pthread" THEN "pthread"
    ELSE IF arg = "pth" THEN "pth"
    ELSE "usage"

\* The option arguments of the model's command lines.
NumStrings == { << "1" >>, << "-", "1" >>, << "x" >>, << "2", "x" >> }

LibStrings == Libs \cup {"bogus"}

\* What one call of getopt_long returns: the option letter ("?" for an
\* option it does not know) and optarg.
Tokens ==
    [opt : {"r", "a"}, num : NumStrings, lib : {""}]
        \cup [opt : {"l"}, num : {<< >>}, lib : LibStrings]
        \cup [opt : {"h", "?"}, num : {<< >>}, lib : {""}]

Argvs == UNION { [1 .. n -> Tokens] : n \in 0 .. MaxArgs }

\* The program at the start of main: vars holds its static initialisers.
InitParse ==
    /\ argv \in Argvs
    /\ optind = 1
    /\ opts = [amount |-> DEFAULT_AMOUNT, repeat |-> DEFAULT_REPEAT,
               lib |-> "serial"]
    /\ mem = [p \in Procs |-> 0]
    /\ expected = 0
    /\ mpc = "parse"
    /\ si = 0
    /\ wpc = [u \in Units |-> "idle"]
    /\ wi = [u \in Units |-> 0]
    /\ reg = [u \in Units |-> 0]
    /\ line = NoLine
    /\ report = [p \in Procs |-> NoReport]
    /\ nreports = 0
    /\ cur = 0
    /\ failed = {}
    /\ lostSum = 0
    /\ calls = [k \in 1 .. Len(ops) |-> 0]
    /\ run = 1
    /\ firstRun = [end |-> 0, lostSum |-> 0]

\* case 'r': vars.repeat = atol(optarg)
ParseRepeat ==
    /\ mpc = "parse"
    /\ optind <= Len(argv)
    /\ argv[optind].opt = "r"
    /\ opts' = [opts EXCEPT !.repeat = atol(argv[optind].num)]
    /\ optind' = optind + 1
    /\ UNCHANGED << mem, expected, mpc, si, wpc, wi, reg, line, report,
                    nreports, cur, failed, lostSum, run, firstRun, argv,
                    calls >>

\* case 'a': vars.amount = atol(optarg)
ParseAmount ==
    /\ mpc = "parse"
    /\ optind <= Len(argv)
    /\ argv[optind].opt = "a"
    /\ opts' = [opts EXCEPT !.amount = atol(argv[optind].num)]
    /\ optind' = optind + 1
    /\ UNCHANGED << mem, expected, mpc, si, wpc, wi, reg, line, report,
                    nreports, cur, failed, lostSum, run, firstRun, argv,
                    calls >>

\* case 'l': vars.lib = spawn_..., or usage() for any other name.
ParseLib ==
    /\ mpc = "parse"
    /\ optind <= Len(argv)
    /\ argv[optind].opt = "l"
    /\ IF LibOf(argv[optind].lib) = "usage"
       THEN mpc' = "usage" /\ opts' = opts
       ELSE mpc' = mpc /\ opts' = [opts EXCEPT !.lib = LibOf(argv[optind].lib)]
    /\ optind' = optind + 1
    /\ UNCHANGED << mem, expected, si, wpc, wi, reg, line, report, nreports,
                    cur, failed, lostSum, run, firstRun, argv, calls >>

\* case 'h' and default: usage(), which prints the help and exits with
\* EXIT_FAILURE.
ParseUsage ==
    /\ mpc = "parse"
    /\ optind <= Len(argv)
    /\ argv[optind].opt \notin {"r", "a", "l"}
    /\ mpc' = "usage"
    /\ optind' = optind + 1
    /\ UNCHANGED << opts, mem, expected, si, wpc, wi, reg, line, report,
                    nreports, cur, failed, lostSum, run, firstRun, argv,
                    calls >>

\* getopt_long returns -1: parse_opts returns to main.
ParseEnd ==
    /\ mpc = "parse"
    /\ optind > Len(argv)
    /\ mpc' = "expected"
    /\ UNCHANGED << opts, mem, expected, si, wpc, wi, reg, line, report,
                    nreports, cur, failed, lostSum, run, firstRun, argv,
                    optind, calls >>

ParseOpts ==
    \/ ParseRepeat
    \/ ParseAmount
    \/ ParseLib
    \/ ParseUsage
    \/ ParseEnd

----------------------------------------------------------------------------
(* main, up to the call of the strategy *)

MainExpected ==
    /\ mpc = "expected"
    /\ mem' = [mem EXCEPT ![0] = opts.amount]
    /\ expected' = ComputeExpected(opts.amount, opts.repeat)
    /\ mpc' = "call"
    /\ UNCHANGED << opts, si, wpc, wi, reg, line, report, nreports, cur,
                    failed, lostSum, run, firstRun, argv, optind, calls >>

\* vars.lib(&global_account): enter the selected spawn_* with i = 0.
MainCall ==
    /\ mpc = "call"
    /\ mpc' = opts.lib
    /\ si' = 0
    /\ UNCHANGED << opts, mem, expected, wpc, wi, reg, line, report, nreports,
                    cur, failed, lostSum, run, firstRun, argv, optind, calls >>

----------------------------------------------------------------------------
(* atm *)

\* The model follows a worker for at most IterBound iterations; a repeat
\* count beyond it (the default, or a negative one) is not followed further.
IterBound == IF opts.lib = "pthread" THEN MaxRepeatPthread ELSE MaxRepeat

\* Loop test true, then the load of `op->account->balance += op->amount`.
AtmLoad(u) ==
    /\ wpc[u] = "loop"
    /\ Runnable(u)
    /\ LoopCond(wi[u], opts.repeat)
    /\ wi[u] < IterBound
    /\ reg' = [reg EXCEPT ![u] = mem[proc(u)]]
    /\ wpc' = [wpc EXCEPT ![u] = "store"]
    /\ UNCHANGED << opts, mem, expected, mpc, si, wi, line, report, nreports,
                    cur, failed, lostSum, run, firstRun, argv, optind, calls >>

\* The value the store of `balance += amount` writes.
StoreValue_atomic(u) == mem[proc(u)] + ops[u].amount

StoreValue(u) == reg[u] + ops[u].amount

AtmStore_clobber(u) ==
    /\ wpc[u] = "store"
    /\ Runnable(u)
    /\ mem' = [p \in Procs |-> StoreValue(u)]
    /\ lostSum' = lostSum + (mem[proc(u)] - reg[u])
    /\ wi' = [wi EXCEPT ![u] = wi[u] + 1]
    /\ wpc' = [wpc EXCEPT ![u] = "loop"]
    /\ UNCHANGED << opts, expected, mpc, si, reg, line, report, nreports,
                    cur, failed, run, firstRun, argv, optind, calls >>

\* The store of `balance += amount`, then i++.
AtmStore(u) ==
    /\ wpc[u] = "store"
    /\ Runnable(u)
    /\ mem' = [mem EXCEPT ![proc(u)] = StoreValue(u)]
    /\ lostSum' = lostSum + (mem[proc(u)] - reg[u])
    /\ wi' = [wi EXCEPT ![u] = wi[u] + 1]
    /\ wpc' = [wpc EXCEPT ![u] = "loop"]
    /\ UNCHANGED << opts, expected, mpc, si, reg, line, report, nreports,
                    cur, failed, run, firstRun, argv, optind, calls >>

\* The balance printf prints: op->account->balance, read again.
PrintValue_stale(u) == IF wi[u] > 0 THEN reg[u] + ops[u].amount ELSE reg[u]

PrintValue(u) == mem[proc(u)]

\* Loop test false: printf of the balance read now, then return NULL.
AtmPrint(u) ==
    /\ wpc[u] = "loop"
    /\ Runnable(u)
    /\ ~ LoopCond(wi[u], opts.repeat)
    /\ line' = [unit |-> u, balance |-> PrintValue(u)]
    /\ wpc' = [wpc EXCEPT ![u] = "ret"]
    /\ UNCHANGED << opts, mem, expected, mpc, si, wi, reg, report, nreports,
                    cur, failed, lostSum, run, firstRun, argv, optind, calls >>

----------------------------------------------------------------------------
(* spawn_serial *)

SerialCall ==
    /\ mpc = "serial"
    /\ si < nr_ops
    /\ wpc[si + 1] = "idle"
    /\ wpc' = [wpc EXCEPT ![si + 1] = "loop"]
    /\ calls' = [calls EXCEPT ![si + 1] = calls[si + 1] + 1]
    /\ UNCHANGED << opts, mem, expected, mpc, si, wi, reg, line, report,
                    nreports, cur, failed, lostSum, run, firstRun, argv, optind >>

\* atm(&ops[i]) has returned: i++.
SerialNext ==
    /\ mpc = "serial"
    /\ si < nr_ops
    /\ wpc[si + 1] = "ret"
    /\ si' = si + 1
    /\ UNCHANGED << opts, mem, expected, mpc, wpc, wi, reg, line, report,
                    nreports, cur, failed, lostSum, run, firstRun, argv, optind, calls >>

SerialReturn ==
    /\ mpc = "serial"
    /\ si = nr_ops
    /\ mpc' = "report"
    /\ UNCHANGED << opts, mem, expected, si, wpc, wi, reg, line, report,
                    nreports, cur, failed, lostSum, run, firstRun, argv, optind, calls >>

----------------------------------------------------------------------------
(* spawn_fork *)

\* The address space the child forked for ops[u] starts with.
ChildMemory_nocopy(u) == mem

ChildMemory(u) == [mem EXCEPT ![u] = mem[0]]

\* fork() returns 0 in the new child, which calls atm(&ops[i]); the parent
\* gets the child's pid and goes on with i++.
ForkChild ==
    /\ mpc = "fork"
    /\ si < nr_ops
    /\ mem' = ChildMemory(si + 1)
    /\ wpc' = [wpc EXCEPT ![si + 1] = "loop"]
    /\ calls' = [calls EXCEPT ![si + 1] = calls[si + 1] + 1]
    /\ si' = si + 1
    /\ UNCHANGED << opts, expected, mpc, wi, reg, line, report, nreports,
                    cur, failed, lostSum, run, firstRun, argv, optind >>

ForkLoopEnd_early ==
    /\ mpc = "fork"
    /\ si >= 1
    /\ mpc' = "fork_wait"
    /\ UNCHANGED << opts, mem, expected, si, wpc, wi, reg, line, report,
                    nreports, cur, failed, lostSum, run, firstRun, argv,
                    optind, calls >>

ForkLoopEnd ==
    /\ mpc = "fork"
    /\ si = nr_ops
    /\ mpc' = "fork_wait"
    /\ UNCHANGED << opts, mem, expected, si, wpc, wi, reg, line, report,
                    nreports, cur, failed, lostSum, run, firstRun, argv, optind, calls >>

ChildReturn_forks(u) ==
    /\ opts.lib = "fork"
    /\ wpc[u] = "ret"
    /\ calls' = [k \in 1 .. Len(ops) |->
                     IF k = u + 1 /\ k <= nr_ops THEN calls[k] + 1
                     ELSE calls[k]]
    /\ wpc' = [wpc EXCEPT ![u] = "exited"]
    /\ UNCHANGED << opts, mem, expected, mpc, si, wi, reg, line, report,
                    nreports, cur, failed, lostSum, run, firstRun, argv,
                    optind >>

\* The child's `return;` leaves spawn_fork for main, which prints the three
\* report lines from the child's memory and returns 0: the child exits.
ChildReturn(u) ==
    /\ opts.lib = "fork"
    /\ wpc[u] = "ret"
    /\ report' = [report EXCEPT ![u] =
                     [printed |-> TRUE, start |-> opts.amount,
                      end |-> mem[u], expected |-> expected]]
    /\ nreports' = nreports + 1
    /\ wpc' = [wpc EXCEPT ![u] = "exited"]
    /\ UNCHANGED << opts, mem, expected, mpc, si, wi, reg, line, cur, failed,
                    lostSum, run, firstRun, argv, optind, calls >>

\* wait(NULL) returns the pid of a terminated child.
WaitReap(u) ==
    /\ mpc = "fork_wait"
    /\ wpc[u] = "exited"
    /\ wpc' = [wpc EXCEPT ![u] = "reaped"]
    /\ UNCHANGED << opts, mem, expected, mpc, si, wi, reg, line, report,
                    nreports, cur, failed, lostSum, run, firstRun, argv, optind, calls >>

\* wait(NULL) returns -1: the process has no child left.
WaitEnd_spin ==
    /\ mpc = "fork_wait"
    /\ \A u \in Units : wpc[u] \in {"idle", "reaped"}
    /\ UNCHANGED vars

WaitEnd ==
    /\ mpc = "fork_wait"
    /\ \A u \in Units : wpc[u] \in {"idle", "reaped"}
    /\ mpc' = "report"
    /\ UNCHANGED << opts, mem, expected, si, wpc, wi, reg, line, report,
                    nreports, cur, failed, lostSum, run, firstRun, argv, optind, calls >>

----------------------------------------------------------------------------
(* spawn_pthread *)

PthreadCreate ==
    /\ mpc = "pthread"
    /\ si < nr_ops
    /\ wpc' = [wpc EXCEPT ![si + 1] = "loop"]
    /\ calls' = [calls EXCEPT ![si + 1] = calls[si + 1] + 1]
    /\ si' = si + 1
    /\ UNCHANGED << opts, mem, expected, mpc, wi, reg, line, report, nreports,
                    cur, failed, lostSum, run, firstRun, argv, optind >>

PthreadLoopEnd ==
    /\ mpc = "pthread"
    /\ si = nr_ops
    /\ mpc' = "pthread_join"
    /\ si' = 0
    /\ UNCHANGED << opts, mem, expected, wpc, wi, reg, line, report, nreports,
                    cur, failed, lostSum, run, firstRun, argv, optind, calls >>

PthreadJoin_nowait ==
    /\ mpc = "pthread_join"
    /\ si < nr_ops
    /\ si' = si + 1
    /\ UNCHANGED << opts, mem, expected, mpc, wpc, wi, reg, line, report,
                    nreports, cur, failed, lostSum, run, firstRun, argv,
                    optind, calls >>

\* pthread_join(thread[i], NULL) returns once thread i has ended.
PthreadJoin ==
    /\ mpc = "pthread_join"
    /\ si < nr_ops
    /\ wpc[si + 1] = "ret"
    /\ si' = si + 1
    /\ UNCHANGED << opts, mem, expected, mpc, wpc, wi, reg, line, report,
                    nreports, cur, failed, lostSum, run, firstRun, argv, optind, calls >>

PthreadReturn ==
    /\ mpc = "pthread_join"
    /\ si = nr_ops
    /\ mpc' = "report"
    /\ UNCHANGED << opts, mem, expected, si, wpc, wi, reg, line, report,
                    nreports, cur, failed, lostSum, run, firstRun, argv, optind, calls >>

----------------------------------------------------------------------------
(* spawn_pth *)

\* The threads the pth scheduler may dispatch: spawned and not ended.
Ready == { u \in Units : wpc[u] \in {"loop", "store"} }

\* pth_spawn queues the new thread; main keeps the processor.
PthSpawn ==
    /\ mpc = "pth"
    /\ cur = 0
    /\ si < nr_ops
    /\ wpc' = [wpc EXCEPT ![si + 1] = "loop"]
    /\ calls' = [calls EXCEPT ![si + 1] = calls[si + 1] + 1]
    /\ si' = si + 1
    /\ UNCHANGED << opts, mem, expected, mpc, wi, reg, line, report, nreports,
                    cur, failed, lostSum, run, firstRun, argv, optind >>

PthLoopEnd ==
    /\ mpc = "pth"
    /\ cur = 0
    /\ si = nr_ops
    /\ mpc' = "pth_join"
    /\ si' = 0
    /\ UNCHANGED << opts, mem, expected, wpc, wi, reg, line, report, nreports,
                    cur, failed, lostSum, run, firstRun, argv, optind, calls >>

\* pth_join(thread[i], NULL): returns at once when thread i has ended,
\* otherwise main blocks and the scheduler dispatches a ready thread.
PthJoin ==
    /\ mpc = "pth_join"
    /\ cur = 0
    /\ si < nr_ops
    /\ si + 1 \notin failed
    /\ IF wpc[si + 1] = "ret"
       THEN si' = si + 1 /\ cur' = cur
       ELSE si' = si /\ cur' \in Ready
    /\ UNCHANGED << opts, mem, expected, mpc, wpc, wi, reg, line, report,
                    nreports, failed, lostSum, run, firstRun, argv, optind, calls >>

\* The running thread has ended: the scheduler dispatches another ready
\* thread, or main when the thread main is joining has ended.
PthDispatch ==
    /\ opts.lib = "pth"
    /\ mpc = "pth_join"
    /\ cur # 0
    /\ wpc[cur] = "ret"
    /\ cur' \in Ready \cup (IF wpc[si + 1] = "ret" THEN {0} ELSE {})
    /\ UNCHANGED << opts, mem, expected, mpc, si, wpc, wi, reg, line, report,
                    nreports, failed, lostSum, run, firstRun, argv, optind, calls >>

PthReturn ==
    /\ mpc = "pth_join"
    /\ cur = 0
    /\ si = nr_ops
    /\ mpc' = "report"
    /\ UNCHANGED << opts, mem, expected, si, wpc, wi, reg, line, report,
                    nreports, cur, failed, lostSum, run, firstRun, argv, optind, calls >>

----------------------------------------------------------------------------
(* main, after the strategy has returned *)

\* The three printf of main, then return 0.
MainReport ==
    /\ mpc = "report"
    /\ report' = [report EXCEPT ![0] =
                     [printed |-> TRUE, start |-> opts.amount,
                      end |-> mem[0], expected |-> expected]]
    /\ nreports' = nreports + 1
    /\ mpc' = "exit"
    /\ UNCHANGED << opts, mem, expected, si, wpc, wi, reg, line, cur, failed,
                    lostSum, run, firstRun, argv, optind, calls >>

----------------------------------------------------------------------------

(* fork, pthread_create or pth_spawn fails (the system is out of processes,
   threads or memory).  No spawn_* function looks at the result. *)

\* fork() returns -1: not 0, so the parent goes on with i++.
ForkFail ==
    /\ mpc = "fork"
    /\ si < nr_ops
    /\ failed' = failed \cup {si + 1}
    /\ si' = si + 1
    /\ UNCHANGED << opts, mem, expected, mpc, wpc, wi, reg, line, report,
                    nreports, cur, lostSum, run, firstRun, argv, optind, calls >>

\* pthread_create returns an error: thread[i] stays uninitialised.
PthreadCreateFail ==
    /\ mpc = "pthread"
    /\ si < nr_ops
    /\ failed' = failed \cup {si + 1}
    /\ si' = si + 1
    /\ UNCHANGED << opts, mem, expected, mpc, wpc, wi, reg, line, report,
                    nreports, cur, lostSum, run, firstRun, argv, optind, calls >>

\* pthread_join on an uninitialised pthread_t is undefined: it returns an
\* error at once, or the process dies on the wild pointer.
PthreadJoinFailed ==
    /\ mpc = "pthread_join"
    /\ si < nr_ops
    /\ si + 1 \in failed
    /\ \/ si' = si + 1 /\ mpc' = mpc
       \/ si' = si /\ mpc' = "crashed"
    /\ UNCHANGED << opts, mem, expected, wpc, wi, reg, line, report, nreports,
                    cur, failed, lostSum, run, firstRun, argv, optind, calls >>

\* pth_spawn returns NULL.
PthSpawnFail ==
    /\ mpc = "pth"
    /\ cur = 0
    /\ si < nr_ops
    /\ failed' = failed \cup {si + 1}
    /\ si' = si + 1
    /\ UNCHANGED << opts, mem, expected, mpc, wpc, wi, reg, line, report,
                    nreports, cur, lostSum, run, firstRun, argv, optind, calls >>

\* pth_join(NULL, NULL) joins whatever thread has ended and frees it, so this
\* call or a later join of that thread returns an error or the process dies.
PthJoinFailed ==
    /\ mpc = "pth_join"
    /\ cur = 0
    /\ si < nr_ops
    /\ si + 1 \in failed
    /\ \/ si' = si + 1 /\ mpc' = mpc
       \/ si' = si /\ mpc' = "crashed"
    /\ UNCHANGED << opts, mem, expected, wpc, wi, reg, line, report, nreports,
                    cur, failed, lostSum, run, firstRun, argv, optind, calls >>

----------------------------------------------------------------------------
(* The program is run a second time with the same arguments. *)

Rerun ==
    /\ mpc = "exit"
    /\ run = 1
    /\ run' = 2
    /\ firstRun' = [end |-> report[0].end, lostSum |-> lostSum]
    /\ mem' = [p \in Procs |-> 0]
    /\ expected' = 0
    /\ mpc' = "expected"
    /\ si' = 0
    /\ wpc' = [u \in Units |-> "idle"]
    /\ wi' = [u \in Units |-> 0]
    /\ reg' = [u \in Units |-> 0]
    /\ line' = NoLine
    /\ report' = [p \in Procs |-> NoReport]
    /\ nreports' = 0
    /\ cur' = 0
    /\ failed' = {}
    /\ lostSum' = 0
    /\ calls' = [k \in 1 .. Len(ops) |-> 0]
    /\ UNCHANGED << opts, argv, optind >>

----------------------------------------------------------------------------

Atm(u) ==
    \/ AtmLoad(u)
    \/ AtmStore(u)
    \/ AtmPrint(u)

MainCommon ==
    \/ MainExpected
    \/ MainCall
    \/ MainReport

SpawnSerial ==
    \/ SerialCall
    \/ SerialNext
    \/ SerialReturn

SpawnFork ==
    \/ ForkChild
    \/ ForkLoopEnd
    \/ \E u \in Units : WaitReap(u)
    \/ WaitEnd

SpawnPthread ==
    \/ PthreadCreate
    \/ PthreadLoopEnd
    \/ PthreadJoin
    \/ PthreadReturn

SpawnPth ==
    \/ PthSpawn
    \/ PthLoopEnd
    \/ PthJoin
    \/ PthDispatch
    \/ PthReturn

CreateFails ==
    \/ ForkFail
    \/ PthreadCreateFail
    \/ PthreadJoinFailed
    \/ PthSpawnFail
    \/ PthJoinFailed

\* The steps of the original process.
MainStep ==
    \/ MainCommon
    \/ SpawnSerial
    \/ SpawnFork
    \/ SpawnPthread
    \/ SpawnPth

\* The steps of the unit running ops[u].
UnitStep(u) ==
    \/ Atm(u)
    \/ ChildReturn(u)

\* Every strategy, every unit created.
Next ==
    \/ MainStep
    \/ \E u \in Units : UnitStep(u)

Spec == Init /\ [][Next]_vars

\* Every strategy under a fair scheduler: a process or thread that can take
\* a step eventually takes one.
SpecFair ==
    /\ Spec
    /\ WF_vars(MainStep)
    /\ \A u \in Units : WF_vars(UnitStep(u))

\* Every strategy, and the creation of a unit may fail.
NextFail ==
    \/ Next
    \/ CreateFails

SpecFail == Init /\ [][NextFail]_vars

\* The whole program, from the command line on.
NextParse ==
    \/ ParseOpts
    \/ Next

SpecParse == InitParse /\ [][NextParse]_vars

\* --lib serial, run twice.
NextSerial ==
    \/ MainCommon
    \/ SpawnSerial
    \/ \E u \in Units : Atm(u)
    \/ Rerun

SpecSerial ==
    InitWith(Config({"serial"}, MaxRepeat)) /\ [][NextSerial]_vars

\* --lib fork.
NextFork ==
    \/ MainCommon
    \/ SpawnFork
    \/ \E u \in Units : UnitStep(u)

SpecFork == InitWith(Config({"fork"}, MaxRepeat)) /\ [][NextFork]_vars

\* --lib pthread.
NextPthread ==
    \/ MainCommon
    \/ SpawnPthread
    \/ \E u \in Units : Atm(u)

SpecPthread ==
    InitWith(Config({"pthread"}, MaxRepeatPthread)) /\ [][NextPthread]_vars

\* --lib pthread, run twice with the largest configuration of the bounds.
NextPthreadTwice ==
    \/ NextPthread
    \/ Rerun

SpecPthreadTwice ==
    InitWith({[amount |-> MaxStart, repeat |-> MaxRepeatPthread,
               lib |-> "pthread"]})
        /\ [][NextPthreadTwice]_vars

\* --lib pth.
NextPth ==
    \/ MainCommon
    \/ SpawnPth
    \/ \E u \in Units : Atm(u)

SpecPth == InitWith(Config({"pth"}, MaxRepeat)) /\ [][NextPth]_vars

----------------------------------------------------------------------------
(* Properties *)

RECURSIVE SumFrom(_)
SumFrom(k) == IF k > nr_ops THEN 0 ELSE ops[k].amount + SumFrom(k + 1)

\* a_1 + ... + a_n
SumAmounts == SumFrom(1)

\* S + R * (a_1 + ... + a_n)
Target == opts.amount + opts.repeat * SumAmounts

\* The original process has printed its report: its End balance is known.
Reported == report[0].printed

EndBalance == report[0].end

\* Unit u has printed its ATM line (atm prints, then returns).
Printed(u) == wpc[u] \in {"ret", "exited", "reaped"}

\* Unit u has started its mutation loop and not yet printed.
InProgress(u) == wpc[u] = "store" \/ (wpc[u] = "loop" /\ wi[u] > 0)

\* C1: serial strategy: the End balance the driver prints is exactly
\* S + R*(a_1+...+a_n), and a second run with the same configuration prints
\* the same End balance as the first.
C1_SerialEndExact ==
    (opts.lib = "serial" /\ Reported) =>
        /\ EndBalance = Target
        /\ run = 2 => EndBalance = firstRun.end

C1_Witness ==
    /\ opts.lib = "serial"
    /\ opts.repeat = MaxRepeat
    /\ run = 2
    /\ Reported
    /\ EndBalance # opts.amount

\* C2: pthread strategy: the driver's End balance is S + R*(a_1+...+a_n)
\* minus the updates that a store overwrote (a store writes the value loaded
\* earlier plus the amount, whatever the other threads stored in between);
\* the witness is a run whose End balance differs from S + R*(a_1+...+a_n).
C2_EndMissesLostUpdates ==
    (opts.lib = "pthread" /\ Reported) => EndBalance = Target - lostSum

C2_Witness ==
    /\ opts.lib = "pthread"
    /\ opts.repeat >= 1
    /\ Reported
    /\ EndBalance # Target

\* C3: fork strategy: from main's assignment of the start balance on, the
\* parent's copy of the balance is S in every state, and the End balance the
\* parent prints is S.
C3_ParentBalanceUnchanged ==
    opts.lib = "fork" =>
        /\ mpc # "expected" => mem[0] = opts.amount
        /\ Reported => EndBalance = opts.amount

C3_Witness ==
    /\ opts.lib = "fork"
    /\ Reported
    /\ opts.repeat >= 1
    /\ \A u \in Units : Printed(u)
    /\ line.balance # opts.amount

\* C4: fork strategy: the balance child i prints in its ATM line is exactly
\* S + R*a_i, whatever the other children and the parent have done (every
\* ATM line is the last line printed at the moment it is printed).
C4_ChildReportsOwnSum ==
    opts.lib = "fork" =>
        \A u \in Units :
            line.unit = u =>
                line.balance = opts.amount + opts.repeat * ops[u].amount

C4_Witness ==
    /\ opts.lib = "fork"
    /\ opts.repeat = MaxRepeat
    /\ opts.amount >= 1
    /\ \A u \in Units : Printed(u)
    /\ line.unit = 1
    /\ mpc = "fork"

\* C5: pth strategy: at most one worker is inside its mutation loop at any
\* time, no store overwrites another worker's update, and the End balance is
\* S + R*(a_1+...+a_n) under every schedule.
C5_PthNoInterleaving ==
    opts.lib = "pth" =>
        /\ \A u, v \in Units : (InProgress(u) /\ InProgress(v)) => u = v
        /\ lostSum = 0
        /\ Reported => EndBalance = Target

C5_Witness ==
    /\ opts.lib = "pth"
    /\ opts.repeat = MaxRepeat
    /\ Reported
    /\ EndBalance = Target
    /\ EndBalance # opts.amount

\* C6: when the creation of a unit fails the run is aborted: no later unit
\* is launched and the driver's report is not printed.
C6_CreateFailureIsFatal ==
    failed # {} =>
        /\ ~ Reported
        /\ \A f \in failed : \A u \in Units : u > f => wpc[u] = "idle"

\* C7: the three-line report is printed exactly once in a run, and a forked
\* child prints only its ATM line, never the report.
C7_ReportOnce ==
    /\ nreports <= 1
    /\ mpc = "exit" => nreports = 1
    /\ \A u \in Units : ~ report[u].printed

\* C8: Expected is start + sum of amount_i * repeat, computed before any
\* worker runs and the same under every strategy and interleaving; for the
\* default configuration it is 160000000 (every partial sum stays below 2^31,
\* far inside the 64-bit long); the serial End balance equals Expected.
C8_Expected ==
    /\ mpc # "expected" => expected = Target
    /\ mpc = "expected" => \A u \in Units : wpc[u] = "idle"
    /\ Reported => report[0].expected = Target
    /\ ComputeExpected(DEFAULT_AMOUNT, DEFAULT_REPEAT) = 160000000
    /\ (opts.lib = "serial" /\ Reported) => EndBalance = report[0].expected

C8_Witness ==
    /\ opts.lib = "serial"
    /\ opts.repeat = MaxRepeat
    /\ opts.amount = MaxStart
    /\ Reported
    /\ report[0].expected = MaxStart + MaxRepeat * 6

\* C9: under a fair scheduler every strategy runs to completion: every
\* worker prints its line, the strategy returns and the driver prints its
\* report.
C9_RunsToCompletion ==
    <>(mpc = "exit" /\ Reported /\ \A u \in Units : Printed(u))

C9_Witness ==
    /\ opts.lib = "fork"
    /\ opts.repeat = MaxRepeat
    /\ mpc = "exit"
    /\ Reported
    /\ \A u \in Units : wpc[u] = "reaped"

\* C10: pthread strategy: in each of two runs of one configuration the End
\* balance is S + R*(a_1+...+a_n) minus what that run lost, so the two End
\* balances differ exactly when the runs lost different sums of updates; the
\* witness is a pair of runs with different End balances.
C10_EndVariesWithLostUpdates ==
    (opts.lib = "pthread" /\ Reported) =>
        /\ EndBalance = Target - lostSum
        /\ run = 2 =>
              (EndBalance = firstRun.end <=> lostSum = firstRun.lostSum)

C10_Witness ==
    /\ opts.lib = "pthread"
    /\ run = 2
    /\ Reported
    /\ EndBalance # firstRun.end

\* The command line names a strategy that is none of serial, fork, pthread,
\* pth.
UnknownSelector ==
    \E k \in 1 .. Len(argv) : argv[k].opt = "l" /\ argv[k].lib \notin Libs

\* C11: a --lib value other than serial, fork, pthread, pth makes the program
\* refuse to run: it is still parsing or has ended in usage(), no strategy
\* function was called, no worker ran, the balance was never written and no
\* report was printed.
C11_UnknownSelectorRefused ==
    UnknownSelector =>
        /\ mpc \in {"parse", "usage"}
        /\ \A k \in 1 .. Len(ops) : calls[k] = 0
        /\ \A u \in Units : wpc[u] = "idle" /\ wi[u] = 0
        /\ \A p \in Procs : mem[p] = 0
        /\ nreports = 0
        /\ ~ Reported
        /\ line = NoLine

C11_Witness ==
    /\ Len(argv) = 2
    /\ argv[1].opt = "r"
    /\ argv[2].opt = "l"
    /\ argv[2].lib = "bogus"
    /\ mpc = "usage"
    /\ optind = 3
    /\ opts.repeat = 1

\* s is the decimal notation of an integer: an optional sign, then digits
\* and nothing else.
IsInteger(s) ==
    LET t == IF s # << >> /\ Head(s) \in {"-", "+"} THEN Tail(s) ELSE s
    IN  t # << >> /\ \A k \in 1 .. Len(t) : IsDigit(t[k])

MalformedNumber ==
    \E k \in 1 .. Len(argv) :
        argv[k].opt \in {"r", "a"} /\ ~ IsInteger(argv[k].num)

\* C12: a --repeat or --amount value that is not an integer ends the run in
\* the configuration error before any strategy starts: the run never leaves
\* the parsing of the command line except through usage().
C12_MalformedNumberRefused ==
    MalformedNumber => mpc \in {"parse", "usage"}

\* The parent is in the wait / join loop of a concurrent strategy.
Awaiting == mpc \in {"fork_wait", "pthread_join", "pth_join"}

\* The parent is in the launch loop of a concurrent strategy.
Launching == mpc \in {"fork", "pthread", "pth"}

\* C13: fork, pthread and pth launch all n units before any one is awaited:
\* whenever the parent is in its wait / join loop every operation has been
\* launched, and while it is in the launch loop it has awaited nothing (no
\* child reaped, and under pth no thread dispatched, which only a join does).
C13_LaunchAllBeforeAwait ==
    /\ Awaiting => \A u \in Units : calls[u] = 1 /\ wpc[u] # "idle"
    /\ Launching =>
          /\ \A u \in Units : wpc[u] # "reaped"
          /\ \A u \in Units : calls[u] = (IF u <= si THEN 1 ELSE 0)
          /\ opts.lib = "pth" => cur = 0

C13_Witness ==
    /\ opts.lib = "pthread"
    /\ mpc = "pthread_join"
    /\ si = 0
    /\ \A u \in Units : calls[u] = 1
    /\ wpc[1] = "ret"
    /\ wpc[nr_ops] = "loop"

\* Unit u has finished: atm has returned (serial, pthread, pth) or the child
\* process has exited and been reaped by wait (fork).
Finished(u) ==
    IF opts.lib = "fork" THEN wpc[u] = "reaped" ELSE wpc[u] = "ret"

\* C14: a strategy returns to the driver only after every unit it launched
\* has finished: from the return of the strategy on, every worker has done
\* its last write and printed its line (every child has exited), and no step
\* taken after that changes the balance the driver reads as End.
C14_ReturnAfterAllFinished ==
    (mpc \in {"report", "exit"}) =>
        /\ \A u \in Units : calls[u] = 1 /\ Finished(u)
        /\ \A u \in Units : wi[u] = opts.repeat
        /\ Reported => mem[0] = EndBalance

C14_Witness ==
    /\ opts.lib = "pthread"
    /\ opts.repeat = MaxRepeatPthread
    /\ mpc = "exit"
    /\ Reported
    /\ lostSum # 0
    /\ \A u \in Units : wpc[u] = "ret"

\* C15: a worker performs exactly R read-modify-write steps for every repeat
\* count R a signed long can hold: never more than R when R >= 0, exactly R
\* once it has printed, and no step at all when R < 0.
C15_ExactlyRepeatSteps ==
    \A u \in Units :
        /\ opts.repeat >= 0 => wi[u] <= opts.repeat
        /\ (opts.repeat >= 0 /\ Printed(u)) => wi[u] = opts.repeat
        /\ opts.repeat < 0 => wi[u] = 0 /\ wpc[u] # "store"

\* The step is the store of worker u: it leaves `store` for the loop test.
StoreStep(u) == wpc[u] = "store" /\ wpc'[u] = "loop"

\* C16: after startup no step modifies the configuration (start amount,
\* repeat count, strategy), and a worker's step writes nothing but the
\* balance of the account of its operation: the balance of a process changes
\* only by main's initial assignment, by fork's copy into the new child, or
\* by the store of a worker running in that process, and a worker's step
\* leaves Expected and every other process's balance alone.
C16_WorkerWritesOnlyItsBalance ==
    [][/\ opts' = opts
       /\ (\E u \in Units : wpc'[u] # wpc[u] /\ wpc[u] \in {"loop", "store"})
              => expected' = expected
       /\ \A p \in Procs :
              mem'[p] # mem[p] =>
                  \/ mpc = "expected" /\ p = 0
                  \/ mpc = "fork" /\ p = si + 1 /\ wpc[p] = "idle"
                  \/ \E u \in Units :
                         /\ StoreStep(u)
                         /\ p = (IF opts.lib = "fork" THEN u ELSE 0)
                         /\ mem'[p] - reg[u] = ops[u].amount]_vars

C16_Witness ==
    /\ opts.lib = "fork"
    /\ opts.amount = MaxStart
    /\ opts.repeat = MaxRepeat
    /\ mem[0] = opts.amount
    /\ mem[1] = opts.amount
    /\ wpc[1] = "loop"
    /\ Printed(2)
    /\ mem[2] = opts.amount + opts.repeat * ops[2].amount

\* C17: under every strategy each of the n real operations is executed by
\* exactly one worker invocation and the NULL-named sentinel by none: no
\* entry of the table is ever passed to atm twice, the sentinel never, a
\* running or finished worker was invoked once, and when the strategy has
\* returned every real operation has been passed to atm exactly once.
C17_EachOperationOnce ==
    /\ \A k \in 1 .. Len(ops) :
           /\ calls[k] <= 1
           /\ ops[k].name = NULL => calls[k] = 0
    /\ \A u \in Units : wpc[u] # "idle" <=> calls[u] = 1
    /\ (mpc \in {"report", "exit"}) =>
           \A k \in 1 .. Len(ops) : ops[k].name # NULL => calls[k] = 1

C17_Witness ==
    /\ opts.lib = "pth"
    /\ mpc = "exit"
    /\ Reported
    /\ \A k \in 1 .. Len(ops) :
           calls[k] = (IF ops[k].name = NULL THEN 0 ELSE 1)

RECURSIVE SumSignFrom(_, _)
\* The sum of the amounts of ops[k..n] that have the sign sgn (1 or -1).
SumSignFrom(k, sgn) ==
    IF k > nr_ops THEN 0
    ELSE (IF ops[k].amount * sgn > 0 THEN ops[k].amount ELSE 0)
             + SumSignFrom(k + 1, sgn)

SumPositive == SumSignFrom(1, 1)

SumNegative == SumSignFrom(1, -1)

\* C18: pthread strategy: once main has set the balance to S, however the
\* workers' loads and stores interleave the shared balance stays between
\* S + R*(sum of the negative amounts) and S + R*(sum of the positive
\* amounts), S - 7R and S + 13R for the table of the program.
C18_BalanceWithinBounds ==
    (opts.lib = "pthread" /\ mpc # "expected") =>
        /\ opts.amount + opts.repeat * SumNegative <= mem[0]
        /\ mem[0] <= opts.amount + opts.repeat * SumPositive
        /\ SumNegative = -7
        /\ SumPositive = 13

C18_Witness ==
    /\ opts.lib = "pthread"
    /\ opts.repeat = MaxRepeatPthread
    /\ opts.repeat >= 1
    /\ mem[0] = opts.amount + opts.repeat * SumPositive
    /\ \E u \in Units : wpc[u] = "store" /\ reg[u] = opts.amount

\* The processes created so far: one per call of atm in a child.
Created == { u \in Units : calls[u] >= 1 }

\* C19: fork strategy: exactly n processes are created, all by the parent's
\* launch loop: the children created so far are those of ops[0..i-1] of the
\* parent's loop, each created once, n of them once the loop has ended; a
\* child is in no other state than running its own operation, returned,
\* exited or reaped, its balance is S plus its own amount per iteration done,
\* and every process prints at most one report.
C19_ParentForksExactlyN ==
    opts.lib = "fork" =>
        /\ \A k \in 1 .. Len(ops) : calls[k] <= 1
        /\ Created = 1 .. si
        /\ (mpc \in {"fork_wait", "report", "exit"}) => Created = Units
        /\ \A u \in Units :
               /\ wpc[u] # "idle" <=> u \in Created
               /\ u \in Created =>
                      mem[u] = opts.amount + wi[u] * ops[u].amount
               /\ wi[u] <= opts.repeat
        /\ nreports <= nr_ops + 1

C19_Witness ==
    /\ opts.lib = "fork"
    /\ opts.repeat = MaxRepeat
    /\ mpc = "exit"
    /\ Created = Units
    /\ Cardinality(Created) = 4
    /\ \A u \in Units : wpc[u] = "reaped"

\* C20: pthread strategy: the worker whose printf reads the balance last
\* prints the End balance of the driver: once every worker has printed, the
\* balance on the last ATM line is the shared balance, and it is the End
\* balance that main prints, also when updates were lost.
C20_LastLineIsEnd ==
    (opts.lib = "pthread" /\ \A u \in Units : Printed(u)) =>
        /\ line.unit \in Units
        /\ line.balance = mem[0]
        /\ Reported => line.balance = EndBalance

C20_Witness ==
    /\ opts.lib = "pthread"
    /\ Reported
    /\ \A u \in Units : Printed(u)
    /\ lostSum # 0
    /\ EndBalance # Target
    /\ line.balance = EndBalance

====
